---- MODULE Spec2Model ----
(***************************************************************************)
(* Model of the two job-submission scripts of datman:                      *)
(*   bin/dm-proc-freesurfer.py  (FreeSurfer recon + post-processing)       *)
(*   bin/dm_fmriprep.py         (fMRIPrep submission)                      *)
(*                                                                         *)
(* Strings are sequences of tokens (a token is one character or one fixed  *)
(* literal of the source).  Python's None and pandas' NaN are the          *)
(* one-token sequences None and NaN, distinct from every string that the   *)
(* model builds.                                                           *)
(***************************************************************************)
EXTENDS Integers, Sequences, FiniteSets, TLC

None == <<"None">>
NaN == <<"NaN">>
NoFile == <<"NoFile">>

(***************************************************************************)
(* Bounds of the model.                                                    *)
(***************************************************************************)
\* largest number of T1 images found in one subject's input directory
MaxT1 == 2
\* number of runs of dm-proc-freesurfer.py that Spec follows
MaxRuns == 2
\* largest number of subject IDs on the command line of dm_fmriprep.py
MaxList == 2

(***************************************************************************)
(* Python str / list helpers.                                              *)
(***************************************************************************)
\* x in s (substring test)
Contains(x, s) ==
    \E k \in 0..(Len(s) - Len(x)) : SubSeq(s, k + 1, k + Len(x)) = x

\* s[0:n]
Slice0(s, n) == SubSeq(s, 1, IF Len(s) < n THEN Len(s) ELSE n)

\* s.split(sep) for a one-token separator: the pieces between separators,
\* empty pieces included
RECURSIVE Split(_, _)
Split(s, sep) ==
    IF \A k \in 1..Len(s) : s[k] # sep
    THEN <<s>>
    ELSE LET p == CHOOSE k \in 1..Len(s) :
                      s[k] = sep /\ \A j \in 1..(k - 1) : s[j] # sep
         IN  <<SubSeq(s, 1, p - 1)>> \o Split(SubSeq(s, p + 1, Len(s)), sep)

\* sep.join(parts)
RECURSIVE Join(_, _)
Join(parts, sep) ==
    IF Len(parts) = 0 THEN <<>>
    ELSE IF Len(parts) = 1 THEN parts[1]
    ELSE parts[1] \o <<sep>> \o Join(Tail(parts), sep)

(***************************************************************************)
(* dm-proc-freesurfer.py: inputs.                                          *)
(***************************************************************************)
\* subject directories of <inputdir>, as a set and in sorted order
FirstSubject == <<"A", "B", "C", "1">>
SecondSubject == <<"A", "B", "C", "D", "2">>
SubjectIds == { FirstSubject, SecondSubject }
SortedSubjects == << FirstSubject, SecondSubject >>

\* names of the T1 images a subject directory may hold
T1Names == << <<"a">>, <<"b">>, <<"c">> >>
T1Listings == { SubSeq(T1Names, 1, n) : n \in 0..MaxT1 }
OneT1 == SubSeq(T1Names, 1, 1)

\* entries that <FS_subjectsdir>/<id>/scripts/IsRunning* may match, in the
\* order glob returns them; isfile is os.path.isfile of the entry
IsRunningFile == [name |-> "IsRunning.lh", isfile |-> TRUE]
IsRunningDir == [name |-> "IsRunning.d", isfile |-> FALSE]
GlobResults == { <<>>, <<IsRunningFile>>, <<IsRunningDir>>,
                 <<IsRunningDir, IsRunningFile>>, <<IsRunningFile, IsRunningDir>> }

\* The state of one subject outside the script: its T1 images in <inputdir>,
\* and what FreeSurfer left in <FS_subjectsdir>/<id>/scripts.
SubjectStates ==
    { [t1 |-> l, done |-> d, running |-> <<>>] :
          l \in T1Listings, d \in BOOLEAN }
    \cup { [t1 |-> OneT1, done |-> FALSE, running |-> g] : g \in GlobResults }

\* the second subject takes fewer states, to keep the worlds few
FewSubjectStates ==
    { [t1 |-> OneT1, done |-> d, running |-> <<>>] : d \in BOOLEAN }
    \cup { [t1 |-> OneT1, done |-> FALSE, running |-> <<IsRunningFile>>] }

Worlds ==
    { w \in [SubjectIds -> SubjectStates] : w[SecondSubject] \in FewSubjectStates }

PlainWorld ==
    [s \in SubjectIds |-> [t1 |-> OneT1, done |-> FALSE, running |-> <<>>]]

\* command lines:  [options] <inputdir> <FS_subjectsdir>
Timestamps == { <<"t", "1">> }

\* the command lines of Spec: the options that decide what is submitted
Arguments ==
    [ no_postFS : BOOLEAN, postFS_only : BOOLEAN, tag2 : { None, <<"D">> },
      multiple_inputs : BOOLEAN, FS_option : { None }, run_version : { None },
      prefix : { None }, dry_run : BOOLEAN ]

\* the command lines of SpecScripts: the options that decide the run scripts
RunTagValues == { None, <<"v", "2">> }
ScriptArguments ==
    [ no_postFS : BOOLEAN, postFS_only : BOOLEAN, tag2 : { None, <<"Z">> },
      multiple_inputs : { FALSE }, FS_option : { None, <<"-", "3", "T">> },
      run_version : RunTagValues, prefix : { None, <<"X", "Y", "Z">> },
      dry_run : { FALSE } ]

OUTPUT_DIR == <<"/fs">>
RUN_DIR == OUTPUT_DIR \o <<"/bin">>
LOG_DIR == OUTPUT_DIR \o <<"/logs">>
INPUT_DIR == <<"/nii">>
TMP_DIR == <<"/tmp/x">>
WALLTIME == <<"24:00:00">>
WALLTIME_POST == <<"2:00:00">>

\* os.path.join(a, b)
PathJoin(a, b) == a \o <<"/">> \o b

VARIABLES
    \* ---- the world outside dm-proc-freesurfer.py
    world,           \* subject id -> SubjectStates
    bin_files,       \* script name -> text of <FS_subjectsdir>/bin/<name>, or NoFile
    checklist_file,  \* rows of <FS_subjectsdir>/freesurfer-checklist.csv
    nruns,           \* runs started so far; run n takes place on day n
    \* ---- one run of main()
    pc,              \* position in main
    args,            \* docopt arguments
    subjects,        \* dm.proc.get_subject_list(...)
    script_names,    \* get_run_script_names(...)
    checklist,       \* the DataFrame
    job_name_prefix,
    submitted,
    i,               \* loop index of `for i in range(0,len(checklist))`
    \* ---- observations of the run
    runs,            \* calls of dm.utils.run, in order
    writes,          \* paths make_Freesurfer_runsh opened for writing, in order
    loaded,          \* the checklist before dm.proc.find_images
    searched,        \* the checklist as dm.proc.find_images returned it
    script_index     \* indices at which main subscripted script_names

VARIABLES
    \* ---- dm_fmriprep.py: the world
    nii_dir,         \* os.listdir(config.get_path('nii'))
    processed,       \* subjects with a directory <out_dir>/<subject>/fmriprep
    out_dirs,        \* subjects with a directory <out_dir>/<subject>
    \* ---- one run of main()
    p_pc,            \* position in main
    p_args,          \* docopt arguments
    proj_subjects,   \* the local of that name, Unbound until assigned
    p_todo,          \* what `for subject in subjects` has still to visit
    job_files,       \* job scripts on disk, in the order written
    qsubs            \* job scripts handed to qsub, in order

fsvars == <<world, bin_files, checklist_file, nruns, pc, args, subjects,
            script_names, checklist, job_name_prefix, submitted, i, runs, writes,
            loaded, searched, script_index>>

prepvars == <<nii_dir, processed, out_dirs, p_pc, p_args, proj_subjects, p_todo,
              job_files, qsubs>>

vars == <<fsvars, prepvars>>

(***************************************************************************)
(* dm-proc-freesurfer.py: functions.                                       *)
(***************************************************************************)
\* the module-level DRYRUN that docmd reads; main assigns a local of the
\* same name and never declares it global
DRYRUN == FALSE

post_settings_conflict(NO_POST, POSTFS_ONLY) == NO_POST /\ POSTFS_ONLY

runFSsh_name(RUN_TAG) ==
    IF RUN_TAG = None THEN <<"run_freesurfer", ".sh">>
    ELSE <<"run_freesurfer", "_">> \o RUN_TAG \o <<".sh">>

runPostsh_name == <<"postfreesurfer", ".sh">>

\* get_run_script_names without its two option tests
BothScriptNames(RUN_TAG, POSTFS_ONLY, NO_POST) ==
    <<runFSsh_name(RUN_TAG), runPostsh_name>>

get_run_script_names(RUN_TAG, POSTFS_ONLY, NO_POST) ==
    IF POSTFS_ONLY THEN <<runPostsh_name>>
    ELSE IF NO_POST THEN <<runFSsh_name(RUN_TAG)>>
    ELSE <<runFSsh_name(RUN_TAG), runPostsh_name>>

\* every script name a command line of Arguments can ask for
ScriptNames == { runFSsh_name(t) : t \in RunTagValues } \cup { runPostsh_name }

\* the text make_Freesurfer_runsh writes to a file whose basename is bname
runsh_text(bname, output_dir, FS_option, prefix) ==
    <<"#!/bin/bash\n\n", "export SUBJECTS_DIR=">> \o output_dir \o <<"\n\n",
      "## Prints loaded modules to the log\nmodule list\n\n">>
    \o (IF ~Contains(<<"postfreesurfer">>, bname)
        THEN <<"SUBJECT=${1}\n", "shift\n", "T1MAPS=${@}\n", "\nrecon-all -all ">>
             \o (IF FS_option # None THEN FS_option \o <<" ">> ELSE <<>>)
             \o <<"-subjid ${SUBJECT} ${T1MAPS}", " -qcache\n">>
        ELSE <<"ENGIMA_ExtractCortical.sh ${SUBJECTS_DIR} ">> \o prefix \o <<"\n">>
             \o <<"ENGIMA_ExtractSubcortical.sh ${SUBJECTS_DIR} ">> \o prefix
             \o <<"\n">>)

\* runsh_target without the os.path.isfile test of line 250
OverwriteTarget(files, name) == RUN_DIR

\* Where write_run_scripts has make_Freesurfer_runsh write the script `name`:
\* the temporary directory of check_runsh when <run_dir>/<name> is a file,
\* <run_dir>/<name> itself when it is not.

runsh_target(files, name) ==
    IF files[name] # NoFile THEN TMP_DIR ELSE RUN_DIR

\* write_run_scripts over the names still to do.  The result is the files of
\* <run_dir>, the paths written so far, and whether check_runsh called
\* sys.exit(1), after which nothing more is written.
RECURSIVE write_run_scripts(_, _, _, _, _)
write_run_scripts(names, files, written, FS_option, prefix) ==
    IF Len(names) = 0 THEN [files |-> files, writes |-> written, exited |-> FALSE]
    ELSE LET name == names[1]
             dir == runsh_target(files, name)
             text == runsh_text(name, OUTPUT_DIR, FS_option, prefix)
             now == Append(written, PathJoin(dir, name))
         IN  IF dir = RUN_DIR
             THEN write_run_scripts(Tail(names), [files EXCEPT ![name] = text],
                                    now, FS_option, prefix)
             ELSE IF files[name] = text   \* filecmp.cmp(old_script, tmp_runsh)
             THEN write_run_scripts(Tail(names), files, now, FS_option, prefix)
             ELSE [files |-> files, writes |-> now, exited |-> TRUE]

\* subject_previously_completed that never finds recon-all.done
CompletedAlways(subject) == FALSE

\* lines 310-314

subject_previously_completed(subject) == world[subject].done

\* lines 172-175: the first glob match, and whether it is a regular file
FSrunningglob(subid) == world[subid].running

\* the test of line 175 made on the glob result, not on its first entry
AnyMatch(subid) == Len(FSrunningglob(subid)) > 0

FSrunning_isfile(subid) ==
    IF Len(FSrunningglob(subid)) > 0 THEN FSrunningglob(subid)[1].isfile ELSE FALSE

FSrunning_basename(subid) == FSrunningglob(subid)[1].name

\* lines 179-184: the recon-all inputs of a T1_nii cell
RECURSIVE T1s_of(_, _)
T1s_of(base_smaps, subid) ==
    IF Len(base_smaps) = 0 THEN <<>>
    ELSE << <<"-i">>, PathJoin(PathJoin(INPUT_DIR, subid), base_smaps[1]) >>
         \o T1s_of(Tail(base_smaps), subid)

\* a hold pattern that leaves the job name prefix out
HoldOnPost(prefix) == <<"post", "*">>

\* line 328: hold = job_name_prefix + '*'

hold_pattern(prefix) == prefix \o <<"*">>

\* make_FS_command; dm.proc.make_piped_qbatch_command is kept as the record of
\* its arguments
make_FS_command(run_dir, sh_name, prefix, log_dir, wall_time, subid, T1s) ==
    IF subid # None
    THEN [job_command |-> <<"bash -l ">> \o run_dir \o <<"/">> \o sh_name
                          \o <<" ">> \o subid \o <<" ">> \o Join(T1s, " "),
          job_name |-> prefix \o subid,
          log_dir |-> log_dir, wall_time |-> wall_time, afterok |-> None]
    ELSE [job_command |-> <<"bash -l ">> \o run_dir \o <<"/">> \o sh_name,
          job_name |-> prefix \o <<"post">>,
          log_dir |-> log_dir, wall_time |-> wall_time,
          afterok |-> hold_pattern(prefix)]

\* docmd(cmd): one call of dm.utils.run(cmd, dryrun = DRYRUN) returning rtn.
\* stage, script, subid and T1s record what main built the command from.
docmd(cmd, rtn, stage, script, subid, T1s) ==
    Append(runs, [cmd |-> cmd, dryrun |-> DRYRUN, rtn |-> rtn, stage |-> stage,
                  script |-> script, subid |-> subid, T1s |-> T1s])

(***************************************************************************)
(* datman.proc helpers called by main (library code outside bin/).  They   *)
(* follow the DETAILS of the script's docstring: a subject with no T1_nii  *)
(* gets the one T1 image found, or a note when none or several are found.  *)
(* The checklist is written and read back cell by cell (to_csv, read_csv).  *)
(***************************************************************************)
\* dm.proc.get_subject_list(input_dir, TAG2, QC_file), no QC file
get_subject_list(TAG2) ==
    SelectSeq(SortedSubjects, LAMBDA s : TAG2 = None \/ Contains(TAG2, s))

new_row(s) ==
    [id |-> s, T1_nii |-> NaN, date_ran |-> NaN, qc_rator |-> NaN,
     qc_rating |-> NaN, notes |-> NaN]

\* dm.proc.add_new_subjects_to_checklist(subjects, checklist, columns)
add_new_subjects_to_checklist(subs, cl) ==
    LET fresh == SelectSeq(subs, LAMBDA s : \A k \in 1..Len(cl) : cl[k].id # s)
    IN  cl \o [k \in 1..Len(fresh) |-> new_row(fresh[k])]

\* dm.proc.find_images(checklist, 'T1_nii', input_dir, T1_tag,
\*                     subject_filter=TAG2, allow_multiple=MULTI_T1)
find_images_row(row, TAG2, MULTI_T1) ==
    LET sfiles == world[row.id].t1
    IN  IF TAG2 # None /\ ~Contains(TAG2, row.id) THEN row
        ELSE IF row.T1_nii # NaN THEN row
        ELSE IF Len(sfiles) = 1 THEN [row EXCEPT !.T1_nii = sfiles[1]]
        ELSE IF Len(sfiles) > 1
        THEN IF MULTI_T1 THEN [row EXCEPT !.T1_nii = Join(sfiles, ";")]
             ELSE [row EXCEPT !.notes = <<"> 1 T1 found">>]
        ELSE [row EXCEPT !.notes = <<"No T1 found.">>]

find_images(cl, TAG2, MULTI_T1) ==
    [k \in 1..Len(cl) |-> find_images_row(cl[k], TAG2, MULTI_T1)]

(***************************************************************************)
(* dm-proc-freesurfer.py: main, one action per stretch of it.              *)
(***************************************************************************)
NoArgs == [ no_postFS |-> FALSE, postFS_only |-> FALSE, tag2 |-> None,
            multiple_inputs |-> FALSE, FS_option |-> None, run_version |-> None,
            prefix |-> None, dry_run |-> FALSE ]

\* datetime.date.today() of the current run
today == <<"day", nruns>>

FSIdle ==
    /\ bin_files = [n \in ScriptNames |-> NoFile]
    /\ checklist_file = <<>>
    /\ nruns = 0
    /\ pc = "idle"
    /\ args = NoArgs
    /\ subjects = <<>>
    /\ script_names = <<>>
    /\ checklist = <<>>
    /\ job_name_prefix = <<>>
    /\ submitted = FALSE
    /\ i = 0
    /\ runs = <<>>
    /\ writes = <<>>
    /\ loaded = <<>>
    /\ searched = <<>>
    /\ script_index = {}

\* lines 89-133: parse the command line, refuse conflicting options, list the
\* subjects.  A run starts from the files the previous runs left.
StartRun(a) ==
    /\ pc \in {"idle", "done", "exited"}
    /\ nruns' = IF nruns < MaxRuns THEN nruns + 1 ELSE nruns
    /\ args' = a
    /\ subjects' = IF post_settings_conflict(a.no_postFS, a.postFS_only)
                   THEN <<>> ELSE get_subject_list(a.tag2)
    /\ pc' = IF post_settings_conflict(a.no_postFS, a.postFS_only)
                THEN "exited"
             ELSE IF Len(get_subject_list(a.tag2)) = 0 THEN "exited"
             ELSE "scripts"
    /\ script_names' = <<>>
    /\ checklist' = <<>>
    /\ job_name_prefix' = <<>>
    /\ submitted' = FALSE
    /\ i' = 0
    /\ runs' = <<>>
    /\ writes' = <<>>
    /\ loaded' = <<>>
    /\ searched' = <<>>
    /\ script_index' = {}
    /\ UNCHANGED <<world, bin_files, checklist_file, prepvars>>

\* lines 135-140: the prefix, the script names, the run scripts
WriteRunScripts ==
    /\ pc = "scripts"
    /\ LET prefix == IF args.prefix = None THEN Slice0(subjects[1], 3)
                     ELSE args.prefix
           names == get_run_script_names(args.run_version, args.postFS_only,
                                         args.no_postFS)
           w == write_run_scripts(names, bin_files, <<>>, args.FS_option, prefix)
       IN  /\ script_names' = names
           /\ bin_files' = w.files
           /\ writes' = w.writes
           /\ pc' = IF w.exited THEN "exited" ELSE "checklist"
    /\ UNCHANGED <<world, checklist_file, nruns, args, subjects, checklist,
                   job_name_prefix, submitted, i, runs, loaded, searched,
                   script_index, prepvars>>

\* lines 142-155: load the checklist, add the new subjects, search the T1s
LoadChecklist ==
    /\ pc = "checklist"
    /\ loaded' = add_new_subjects_to_checklist(subjects, checklist_file)
    /\ checklist' = find_images(loaded', args.tag2, args.multiple_inputs)
    /\ searched' = checklist'
    /\ \E ts \in Timestamps : job_name_prefix' = <<"FS_">> \o ts \o <<"_">>
    /\ submitted' = FALSE
    /\ i' = 0
    /\ pc' = IF ~args.postFS_only THEN "loop" ELSE "post"
    /\ UNCHANGED <<world, bin_files, checklist_file, nruns, args, subjects,
                   script_names, runs, writes, script_index, prepvars>>

\* lines 157-196: one iteration of the loop over the checklist rows
LoopRow ==
    /\ pc = "loop"
    /\ i < Len(checklist)
    /\ LET row == checklist[i + 1]
           subid == row.id
           TAG2 == args.tag2
       IN  IF TAG2 # None /\ ~Contains(TAG2, subid)
           THEN UNCHANGED <<checklist, runs, submitted, script_index>>
           ELSE IF row.T1_nii = NaN
           THEN UNCHANGED <<checklist, runs, submitted, script_index>>
           ELSE IF subject_previously_completed(subid)
           THEN UNCHANGED <<checklist, runs, submitted, script_index>>
           ELSE IF FSrunning_isfile(subid)
           THEN /\ checklist' = [checklist EXCEPT ![i + 1].notes =
                                    <<"FS halted at ", FSrunning_basename(subid)>>]
                /\ UNCHANGED <<runs, submitted, script_index>>
           ELSE LET T1s == T1s_of(Split(row.T1_nii, ";"), subid)
                    script == script_names[1]
                    FS_cmd == make_FS_command(RUN_DIR, script, job_name_prefix,
                                              LOG_DIR, WALLTIME, subid, T1s)
                IN  /\ \E rtn \in {0, 1} :
                           runs' = docmd(FS_cmd, rtn, "recon", script, subid, T1s)
                    /\ script_index' = script_index \cup {1}
                    /\ checklist' = [checklist EXCEPT ![i + 1].date_ran = today]
                    /\ submitted' = TRUE
    /\ i' = i + 1
    /\ UNCHANGED <<world, bin_files, checklist_file, nruns, pc, args, subjects,
                   script_names, job_name_prefix, writes, loaded, searched,
                   prepvars>>

\* the loop is over
LoopEnd ==
    /\ pc = "loop"
    /\ i >= Len(checklist)
    /\ pc' = "post"
    /\ UNCHANGED <<world, bin_files, checklist_file, nruns, args, subjects,
                   script_names, checklist, job_name_prefix, submitted, i, runs,
                   writes, loaded, searched, script_index, prepvars>>

\* lines 200-210: the post-processing job.  script_names[k] outside the list
\* raises IndexError, which ends the run.
SubmitPost ==
    /\ pc = "post"
    /\ IF args.postFS_only \/ (~args.no_postFS /\ submitted)
       THEN LET k == IF args.postFS_only THEN 1 ELSE 2
            IN  /\ script_index' = script_index \cup {k}
                /\ IF k \in DOMAIN script_names
                   THEN LET script == script_names[k]
                            post_FS_cmd ==
                                make_FS_command(RUN_DIR, script, job_name_prefix,
                                                LOG_DIR, WALLTIME_POST, None, None)
                        IN  /\ \E rtn \in {0, 1} :
                                   runs' = docmd(post_FS_cmd, rtn, "post", script,
                                                 None, None)
                            /\ pc' = "write"
                   ELSE /\ runs' = runs
                        /\ pc' = "crashed"
       ELSE /\ UNCHANGED <<runs, script_index>>
            /\ pc' = "write"
    /\ UNCHANGED <<world, bin_files, checklist_file, nruns, args, subjects,
                   script_names, checklist, job_name_prefix, submitted, i, writes,
                   loaded, searched, prepvars>>

\* lines 212-214: write the checklist unless the local DRYRUN is set
WriteChecklist ==
    /\ pc = "write"
    /\ checklist_file' = IF ~args.dry_run THEN checklist ELSE checklist_file
    /\ pc' = "done"
    /\ UNCHANGED <<world, bin_files, nruns, args, subjects, script_names,
                   checklist, job_name_prefix, submitted, i, runs, writes, loaded,
                   searched, script_index, prepvars>>

\* Between two runs someone rates the first subject of the checklist, as the
\* qc_rator and qc_rating columns are there for.
RateQC ==
    /\ pc \in {"done", "exited"}
    /\ Len(checklist_file) > 0
    /\ checklist_file[1].qc_rating = NaN
    /\ checklist_file' = [checklist_file EXCEPT ![1].qc_rator = <<"r">>,
                                                 ![1].qc_rating = <<"1">>]
    /\ pc' = "idle"
    /\ UNCHANGED <<world, bin_files, nruns, args, subjects, script_names,
                   checklist, job_name_prefix, submitted, i, runs, writes, loaded,
                   searched, script_index, prepvars>>

(***************************************************************************)
(* dm_fmriprep.py                                                          *)
(***************************************************************************)
\* a local name that no assignment has bound yet
Unbound == <<"Unbound">>

\* entries of the project's nii directory: two sessions and a phantom
PrepNames == { <<"S", "_", "C", "_", "1", "_", "0">>,
               <<"S", "_", "C", "_", "2", "_", "0">>,
               <<"S", "_", "P", "H", "A", "_", "9", "_", "0">> }

\* the lists without repetition of at most n elements of S
RECURSIVE ListsOf(_, _)
ListsOf(S, n) ==
    IF n = 0 THEN { <<>> }
    ELSE LET shorter == ListsOf(S, n - 1)
         IN  shorter \cup
             { Append(l, x) : l \in { m \in shorter : Len(m) = n - 1 },
                              x \in S }

Distinct(l) == \A j, k \in 1..Len(l) : j # k => l[j] # l[k]

PrepArguments ==
    [ subjects : { l \in ListsOf(PrepNames, MaxList) : Distinct(l) },
      rewrite : BOOLEAN, ignore_recon : BOOLEAN ]

NoPrepArgs == [ subjects |-> <<>>, rewrite |-> FALSE, ignore_recon |-> FALSE ]

\* line 347: [s for s in os.listdir(...) if 'PHA' not in s]
not_phantoms(listing) ==
    SelectSeq(listing, LAMBDA s : ~Contains(<<"P", "H", "A">>, s))

\* criteria with its `not` left out
KeepProcessed(x) == x \in processed

\* line 181: criteria = lambda x: not os.path.isdir(os.path.join(out_dir,x,'fmriprep'))
criteria(x) == ~(x \in processed)

\* line 182: [s for s in subjects if criteria(s)]
RECURSIVE filter_processed(_)
filter_processed(subs) ==
    IF Len(subs) = 0 THEN <<>>
    ELSE (IF criteria(subs[1]) THEN <<subs[1]>> ELSE <<>>)
         \o filter_processed(Tail(subs))

\* line 202: 'sub-' + subject.split('_')[1] + subject.split('_')[-2]
bids_sub(subject) ==
    LET parts == Split(subject, "_")
    IN  <<"sub-">> \o parts[2] \o parts[Len(parts) - 1]

\* lines 293-314: submit_jobfile.  Line 302 formats the command with err_path
\* and log_path, names bound nowhere in the module: NameError is raised before
\* qsub is started.
submit_jobfile(job_file) ==
    [raised |-> TRUE, qsubs |-> qsubs]

PrepIdle ==
    /\ p_pc = "idle"
    /\ p_args = NoPrepArgs
    /\ proj_subjects = Unbound
    /\ p_todo = <<>>
    /\ job_files = <<>>
    /\ qsubs = <<>>

\* lines 318-347: the command line; the project directory is listed when no
\* subject is given
PrepStart(a) ==
    /\ p_pc = "idle"
    /\ p_args' = a
    /\ proj_subjects' = IF Len(a.subjects) = 0 THEN not_phantoms(nii_dir)
                        ELSE Unbound
    /\ p_pc' = "filter"
    /\ UNCHANGED <<nii_dir, processed, out_dirs, p_todo, job_files, qsubs, fsvars>>

\* lines 349-351: without --rewrite proj_subjects is filtered; reading it
\* unbound raises NameError
PrepFilter ==
    /\ p_pc = "filter"
    /\ IF p_args.rewrite
       THEN /\ p_pc' = "loop"
            /\ UNCHANGED proj_subjects
       ELSE IF proj_subjects = Unbound
       THEN /\ p_pc' = "crashed"
            /\ UNCHANGED proj_subjects
       ELSE /\ p_pc' = "loop"
            /\ proj_subjects' = filter_processed(proj_subjects)
    /\ p_todo' = IF p_pc' = "loop" THEN p_args.subjects ELSE <<>>
    /\ UNCHANGED <<nii_dir, processed, out_dirs, p_args, job_files, qsubs,
                   fsvars>>

\* lines 353-361: one iteration of `for subject in subjects`.
\* initialize_environment makes <out_dir>/<subject> if it is not there.  Without
\* --ignore-recon line 358 calls fetch_fs_recon, a name bound nowhere (the
\* function is fetch_fs_recons): NameError.  gen_jobscript writes the job file
\* and exits when chmod fails.
PrepSubject ==
    /\ p_pc = "loop"
    /\ Len(p_todo) > 0
    /\ LET subject == p_todo[1]
           job_file == [sub |-> bids_sub(subject), subject |-> subject]
       IN  IF ~p_args.ignore_recon
           THEN /\ p_pc' = "crashed"
                /\ UNCHANGED <<job_files, qsubs, p_todo>>
           ELSE \E chmod_rc \in {0, 1} :
                  /\ job_files' = Append(job_files, job_file)
                  /\ IF chmod_rc # 0
                     THEN /\ p_pc' = "exited"
                          /\ UNCHANGED <<qsubs, p_todo>>
                     ELSE IF submit_jobfile(job_file).raised
                     THEN /\ p_pc' = "crashed"
                          /\ UNCHANGED <<qsubs, p_todo>>
                     ELSE /\ qsubs' = submit_jobfile(job_file).qsubs
                          /\ p_todo' = Tail(p_todo)
                          /\ p_pc' = "loop"
    /\ out_dirs' = out_dirs \cup {p_todo[1]}
    /\ UNCHANGED <<nii_dir, processed, p_args, proj_subjects, fsvars>>

\* the loop is over and main returns
PrepLoopEnd ==
    /\ p_pc = "loop"
    /\ Len(p_todo) = 0
    /\ p_pc' = "done"
    /\ UNCHANGED <<nii_dir, processed, out_dirs, p_args, proj_subjects, p_todo,
                   job_files, qsubs, fsvars>>

(***************************************************************************)
(* Specifications.                                                         *)
(***************************************************************************)
\* dm-proc-freesurfer.py, MaxRuns runs in a row over every world
Init ==
    /\ world \in Worlds
    /\ FSIdle
    /\ nii_dir = <<>>
    /\ processed = {}
    /\ out_dirs = {}
    /\ PrepIdle

Next ==
    \/ \E a \in Arguments : nruns < MaxRuns /\ StartRun(a)
    \/ WriteRunScripts
    \/ LoadChecklist
    \/ LoopRow
    \/ LoopEnd
    \/ SubmitPost
    \/ WriteChecklist
    \/ RateQC

Spec == Init /\ [][Next]_vars

\* dm-proc-freesurfer.py, any number of runs with the options that decide the
\* run scripts
InitScripts ==
    /\ world = PlainWorld
    /\ FSIdle
    /\ nii_dir = <<>>
    /\ processed = {}
    /\ out_dirs = {}
    /\ PrepIdle

NextScripts ==
    \/ \E a \in ScriptArguments : StartRun(a)
    \/ WriteRunScripts
    \/ LoadChecklist
    \/ LoopRow
    \/ LoopEnd
    \/ SubmitPost
    \/ WriteChecklist
    \/ RateQC

SpecScripts == InitScripts /\ [][NextScripts]_vars

\* dm_fmriprep.py, one run
InitPrep ==
    /\ world = PlainWorld
    /\ FSIdle
    /\ nii_dir \in { l \in ListsOf(PrepNames, Cardinality(PrepNames)) : Distinct(l) }
    /\ processed \in SUBSET PrepNames
    /\ out_dirs = processed
    /\ PrepIdle

NextPrep ==
    \/ \E a \in PrepArguments : PrepStart(a)
    \/ PrepFilter
    \/ PrepSubject
    \/ PrepLoopEnd

SpecPrep == InitPrep /\ [][NextPrep]_vars

(***************************************************************************)
(* Properties.                                                             *)
(***************************************************************************)
Range(f) == { f[k] : k \in DOMAIN f }

\* the calls of dm.utils.run of this run that submit a recon job for subject
\* id, and those that submit the post-processing job
ReconRuns(id) ==
    { k \in DOMAIN runs : runs[k].stage = "recon" /\ runs[k].subid = id }

AllReconRuns == { k \in DOMAIN runs : runs[k].stage = "recon" }

PostRuns == { k \in DOMAIN runs : runs[k].stage = "post" }

\* the id passes the --tag2 filter
TagOK(id) == args.tag2 = None \/ Contains(args.tag2, id)

\* some entry matching <id>/scripts/IsRunning* is a regular file
HasIsRunningFile(id) ==
    \E k \in DOMAIN world[id].running : world[id].running[k].isfile

\* the first entry matching <id>/scripts/IsRunning* is a regular file
FirstMatchIsFile(id) ==
    Len(world[id].running) > 0 /\ world[id].running[1].isfile

\* fnmatch of the scheduler: a pattern made of a literal followed by one '*'
\* matches the names that start with the literal
GlobMatch(pattern, name) ==
    /\ Len(pattern) > 0
    /\ pattern[Len(pattern)] = "*"
    /\ Len(name) >= Len(pattern) - 1
    /\ SubSeq(name, 1, Len(pattern) - 1) = SubSeq(pattern, 1, Len(pattern) - 1)

\* C1: once a script file exists in <FS_subjectsdir>/bin no step of any run
\* changes its content; write_run_scripts has make_Freesurfer_runsh write to
\* <run_dir>/<name> only when that file did not exist, and to a temporary
\* path when it did.
ScriptWrittenOnce ==
    [][ /\ \A n \in ScriptNames :
              bin_files[n] # NoFile => bin_files'[n] = bin_files[n]
        /\ pc = "scripts" =>
              \A k \in DOMAIN writes' : \A n \in ScriptNames :
                  /\ writes'[k] = PathJoin(RUN_DIR, n) => bin_files[n] = NoFile
                  /\ writes'[k] = PathJoin(TMP_DIR, n) => bin_files[n] # NoFile
      ]_vars

\* C1 witness: a later run found a script of an earlier run, generated only
\* the temporary copy and went on with the old file.
ScriptReused ==
    /\ pc = "checklist"
    /\ nruns >= 2
    /\ \E n \in Range(script_names) :
           /\ PathJoin(TMP_DIR, n) \in Range(writes)
           /\ PathJoin(RUN_DIR, n) \notin Range(writes)
           /\ bin_files[n] # NoFile

\* C2 as stated: for a row whose subject has recon-all.done, no recon job is
\* submitted and date_ran and notes are as they were when the run loaded the
\* checklist.
CompletedRowUntouchedByRun ==
    \A k \in DOMAIN checklist :
        world[checklist[k].id].done =>
            /\ ReconRuns(checklist[k].id) = {}
            /\ checklist[k].date_ran = loaded[k].date_ran
            /\ checklist[k].notes = loaded[k].notes

\* C2 amended: for a row whose subject has recon-all.done, no recon job is
\* submitted and date_ran and notes are as the T1 search left them.
CompletedRowSkipped ==
    \A k \in DOMAIN checklist :
        world[checklist[k].id].done =>
            /\ ReconRuns(checklist[k].id) = {}
            /\ checklist[k].date_ran = searched[k].date_ran
            /\ checklist[k].notes = searched[k].notes

\* C2 witness: the loop passed a complete subject that has a T1 and passes
\* the tag filter, and submitted another subject.
CompletedRowPassed ==
    /\ pc = "done"
    /\ AllReconRuns # {}
    /\ \E k \in DOMAIN checklist :
           /\ world[checklist[k].id].done
           /\ checklist[k].T1_nii # NaN
           /\ TagOK(checklist[k].id)

\* C3: in the calls of one run the post-processing job comes after every
\* recon job, there is at most one, and its afterok pattern is
\* job_name_prefix + '*', which matches the job name job_name_prefix + subid
\* of every recon job of the run.
TwoStageOrdering ==
    /\ \A j \in PostRuns : \A k \in AllReconRuns : k < j
    /\ Cardinality(PostRuns) <= 1
    /\ \A j \in PostRuns :
           /\ runs[j].cmd.afterok = job_name_prefix \o <<"*">>
           /\ \A k \in AllReconRuns :
                  /\ runs[k].cmd.job_name = job_name_prefix \o runs[k].subid
                  /\ GlobMatch(runs[j].cmd.afterok, runs[k].cmd.job_name)

\* C3 witness: a finished run that submitted two recon jobs and the post job.
TwoReconsThenPost ==
    /\ pc = "done"
    /\ Cardinality(AllReconRuns) = 2
    /\ Cardinality(PostRuns) = 1

\* C4: a command that returned a non-zero code is the last the run invoked,
\* and the run has exited.
ExternalFailureTerminates ==
    \A k \in DOMAIN runs :
        runs[k].rtn # 0 => (pc = "exited" /\ k = Len(runs))

\* C5: with --dry-run every dm.utils.run call gets dryrun=True, and the
\* checklist file keeps the rows it had.
DryRunSubmitsNothing ==
    args.dry_run =>
        /\ \A k \in DOMAIN runs : runs[k].dryrun = TRUE
        /\ pc \in {"loop", "post", "write", "done"} =>
               checklist_file = SubSeq(loaded, 1, Len(checklist_file))

\* C6: the jobs of a run by its post-processing options.  --no-postFS: no
\* post job.  --postFS-only: no recon job, and a run that reaches its end has
\* submitted exactly one post job.  Neither: a run that reaches its end has
\* submitted a post job iff it submitted a recon job.  script_names is only
\* subscripted inside the list; recon jobs run the run_freesurfer script, the
\* post job runs postfreesurfer.sh.
PostOptionsDecideJobs ==
    /\ pc # "crashed"
    /\ script_index \subseteq DOMAIN script_names
    /\ args.no_postFS => PostRuns = {}
    /\ args.postFS_only => AllReconRuns = {}
    /\ (args.postFS_only /\ pc = "done") => Cardinality(PostRuns) = 1
    /\ (~args.postFS_only /\ ~args.no_postFS /\ pc = "done") =>
           (PostRuns # {} <=> AllReconRuns # {})
    /\ \A k \in AllReconRuns :
           /\ runs[k].script = runFSsh_name(args.run_version)
           /\ Contains(PathJoin(RUN_DIR, runs[k].script) \o <<" ">>,
                       runs[k].cmd.job_command)
    /\ \A k \in PostRuns :
           /\ runs[k].script = <<"postfreesurfer", ".sh">>
           /\ Contains(PathJoin(RUN_DIR, runs[k].script),
                       runs[k].cmd.job_command)

\* C6 witness: a finished run with neither option that submitted recon jobs
\* and then the post job, subscripting script_names at both positions.
ReconAndPostSubmitted ==
    /\ pc = "done"
    /\ ~args.postFS_only /\ ~args.no_postFS
    /\ AllReconRuns # {}
    /\ PostRuns # {}
    /\ script_index = {1, 2}

\* the j-th ';'-separated entry of a T1_nii cell: what lies between the
\* (j-1)-th and the j-th ';'
Entry(cell, j) ==
    LET marks == { k \in DOMAIN cell : cell[k] = ";" } \cup {0, Len(cell) + 1}
        mark(n) == CHOOSE p \in marks : Cardinality({ q \in marks : q < p }) = n
    IN  SubSeq(cell, mark(j - 1) + 1, mark(j) - 1)

\* T1s holds one '-i <inputdir>/<id>/<file>' pair per ';'-separated entry
InputPairsMatch(T1s, id, cell) ==
    LET n == Cardinality({ k \in DOMAIN cell : cell[k] = ";" }) + 1
    IN  /\ Len(T1s) = 2 * n
        /\ \A j \in 1..n :
               /\ T1s[2 * j - 1] = <<"-i">>
               /\ T1s[2 * j] = INPUT_DIR \o <<"/">> \o id \o <<"/">> \o Entry(cell, j)

\* C7: in a finished run without --postFS-only, row i gets a recon job iff
\* its T1_nii is not null, its id contains --tag2 when given, recon-all.done
\* does not exist and no IsRunning* file exists; it then gets exactly one,
\* with one '-i' pair per ';'-separated entry of T1_nii.
T1SubmittedExactlyWhenUnprocessed ==
    (pc = "done" /\ ~args.postFS_only) =>
        \A k \in DOMAIN checklist :
            LET id == checklist[k].id
                unprocessed == /\ searched[k].T1_nii # NaN
                               /\ TagOK(id)
                               /\ ~world[id].done
                               /\ ~HasIsRunningFile(id)
            IN  /\ unprocessed <=> ReconRuns(id) # {}
                /\ Cardinality(ReconRuns(id)) <= 1
                /\ \A r \in ReconRuns(id) :
                       /\ runs[r].dryrun = FALSE
                       /\ InputPairsMatch(runs[r].T1s, id, searched[k].T1_nii)
                       /\ Contains(Join(runs[r].T1s, " "), runs[r].cmd.job_command)

\* C7 with "the first IsRunning* match is not a regular file" in the place of
\* "no IsRunning* file exists": what the loop does.
T1SubmittedUnlessFirstMatchIsFile ==
    (pc = "done" /\ ~args.postFS_only) =>
        \A k \in DOMAIN checklist :
            LET id == checklist[k].id
                unprocessed == /\ searched[k].T1_nii # NaN
                               /\ TagOK(id)
                               /\ ~world[id].done
                               /\ ~FirstMatchIsFile(id)
            IN  /\ unprocessed <=> ReconRuns(id) # {}
                /\ Cardinality(ReconRuns(id)) <= 1
                /\ \A r \in ReconRuns(id) :
                       /\ runs[r].dryrun = FALSE
                       /\ InputPairsMatch(runs[r].T1s, id, searched[k].T1_nii)
                       /\ Contains(Join(runs[r].T1s, " "), runs[r].cmd.job_command)

\* the cells of a row that no run changes after the T1 search
SameFixedCells(r, r0) ==
    /\ r.id = r0.id
    /\ r.T1_nii = r0.T1_nii
    /\ r.qc_rator = r0.qc_rator
    /\ r.qc_rating = r0.qc_rating

\* C10 as stated: after the loop, against the checklist the T1 search
\* returned, date_ran is today's date on exactly the rows with a recon job of
\* this run, notes is 'FS halted at <IsRunning file>' on exactly the rows that
\* are not complete, have a T1 and have an IsRunning* file (these get no job
\* and keep date_ran), and every other cell is unchanged.
ChecklistChangesAsStated ==
    pc \in {"write", "done"} =>
        /\ Len(checklist) = Len(searched)
        /\ \A k \in DOMAIN checklist :
               LET r == checklist[k]
                   r0 == searched[k]
                   sub == ReconRuns(r.id) # {}
                   halted == /\ ~world[r.id].done
                             /\ r0.T1_nii # NaN
                             /\ HasIsRunningFile(r.id)
               IN  /\ SameFixedCells(r, r0)
                   /\ r.date_ran = IF sub THEN today ELSE r0.date_ran
                   /\ halted => ~sub
                   /\ IF halted
                      THEN \E e \in Range(world[r.id].running) :
                               e.isfile /\ r.notes = <<"FS halted at ", e.name>>
                      ELSE r.notes = r0.notes

\* C10 amended: the rows that get the note are those that, in a run without
\* --postFS-only, pass the --tag2 filter, are not complete, have a T1 and
\* whose first IsRunning* match is a regular file; the note names that match.
ChecklistChangesAmended ==
    pc \in {"write", "done"} =>
        /\ Len(checklist) = Len(searched)
        /\ \A k \in DOMAIN checklist :
               LET r == checklist[k]
                   r0 == searched[k]
                   sub == ReconRuns(r.id) # {}
                   halted == /\ ~args.postFS_only
                             /\ TagOK(r.id)
                             /\ ~world[r.id].done
                             /\ r0.T1_nii # NaN
                             /\ FirstMatchIsFile(r.id)
               IN  /\ SameFixedCells(r, r0)
                   /\ r.date_ran = IF sub THEN today ELSE r0.date_ran
                   /\ halted => ~sub
                   /\ r.notes = IF halted
                                THEN <<"FS halted at ", world[r.id].running[1].name>>
                                ELSE r0.notes

\* C10 witness: a finished run that noted one halted subject, dated another
\* one it submitted, and kept a rating someone had entered.
HaltedNotedAndOtherDated ==
    /\ pc = "done"
    /\ \E j, k \in DOMAIN checklist :
           /\ checklist[j].notes # searched[j].notes
           /\ checklist[j].notes[1] = "FS halted at "
           /\ checklist[k].date_ran # searched[k].date_ran
           /\ checklist[k].date_ran = today
    /\ \E k \in DOMAIN checklist : checklist[k].qc_rating # NaN

(***************************************************************************)
(* Properties of dm_fmriprep.py.                                           *)
(***************************************************************************)
\* C8: a finished run without <subjects> has generated and submitted a job
\* script for every entry of the nii directory that is no phantom and, without
\* --rewrite, is not processed yet.
ProjectSubjectsSubmitted ==
    (p_pc = "done" /\ Len(p_args.subjects) = 0) =>
        \A s \in Range(nii_dir) :
            (~Contains(<<"P", "H", "A">>, s) /\ (p_args.rewrite \/ s \notin processed))
                => /\ \E j \in DOMAIN job_files : job_files[j].subject = s
                   /\ \E j \in DOMAIN qsubs : qsubs[j].subject = s

\* out is the list of the elements of inp that satisfy keep, in the order of inp
OrderedFilter(inp, out, keep(_)) ==
    \E f \in [DOMAIN out -> DOMAIN inp] :
        /\ \A j, k \in DOMAIN out : j < k => f[j] < f[k]
        /\ \A j \in DOMAIN out : out[j] = inp[f[j]]
        /\ { f[j] : j \in DOMAIN out } = { k \in DOMAIN inp : keep(inp[k]) }

\* C9: without --rewrite no processed subject is ever handed to qsub, and once
\* line 351 has run, proj_subjects is the list of the unprocessed subjects of
\* the project, in listing order; with --rewrite proj_subjects keeps every
\* subject.
ProcessedNeverSubmitted ==
    /\ ~p_args.rewrite =>
           \A j \in DOMAIN qsubs : qsubs[j].subject \notin processed
    /\ (p_pc \in {"loop", "done"} /\ Len(p_args.subjects) = 0) =>
           IF p_args.rewrite
           THEN OrderedFilter(nii_dir, proj_subjects,
                              LAMBDA s : ~Contains(<<"P", "H", "A">>, s))
           ELSE OrderedFilter(nii_dir, proj_subjects,
                              LAMBDA s : /\ ~Contains(<<"P", "H", "A">>, s)
                                         /\ s \notin processed)

\* C9 witness: a run without --rewrite whose project holds a processed and an
\* unprocessed subject; the filter kept the one and dropped the other.
ProcessedSubjectFiltered ==
    /\ p_pc = "done"
    /\ ~p_args.rewrite
    /\ Len(proj_subjects) = 1
    /\ \E s \in Range(nii_dir) :
           /\ s \in processed
           /\ ~Contains(<<"P", "H", "A">>, s)
           /\ s \notin Range(proj_subjects)
====
